---- MODULE Spec2Model ----
(***************************************************************************)
(* DisMusic (app.py): a Flask / Flask-SocketIO jukebox.                    *)
(*                                                                         *)
(* Part I   the transport state (server_state) and its three socket        *)
(*          handlers: handle_connect, handle_player_action,                *)
(*          handle_disconnect.                                             *)
(* Part II  the playlist catalog (table Playlist) and the blob store (S3)  *)
(*          with the HTTP handlers upload, delete_song, reorder_playlist   *)
(*          and get_playlist.                                              *)
(*                                                                         *)
(* Times and positions are floats in the program; they are integers here   *)
(* (whole seconds), so sums and differences are exact.                     *)
(***************************************************************************)
EXTENDS Integers, Sequences, FiniteSets, TLC

(***************************************************************************)
(* Bounds of the model.                                                    *)
(***************************************************************************)
MaxTime == 2        \* the server clock runs over 0..MaxTime
MaxPos == 1         \* a client sends positions ("time") in 0..MaxPos
NumClients == 2     \* socket ids 1..NumClients
MaxUploads == 3     \* at most MaxUploads rows are ever inserted (ids 1..MaxUploads)
MaxOrderLen == 3    \* /playlist/reorder gets lists of at most MaxOrderLen elements

VARIABLES
    server_state,   \* the dict server_state (lines 73-76)
    now,            \* what time.time() returns
    connected,      \* the socket ids Socket.IO holds as connected
    event,          \* the last handler that ran: its name, sid, data, time
    pre_state,      \* server_state as that handler found it
    emitted,        \* the state_update messages that handler emitted
    last_action,    \* the last player_action that was accepted, when, and the
                    \* position stored by it
    atomic_state,   \* server_state as the accepted actions make it when each
                    \* is applied in one step (equal to server_state unless
                    \* handlers run line by line and overlap)
    playlist,       \* the rows of table Playlist (lines 59-69)
    next_id,        \* the next value of the table's id sequence
    blobs,          \* the keys that exist in the S3 bucket
    req             \* per worker: the HTTP request it handles (its handler, its
                    \* position in it, its locals) or the response it gave last

transportVars ==
    <<server_state, now, connected, event, pre_state, emitted, last_action,
      atomic_state>>

catalogVars == <<playlist, next_id, blobs, req>>

vars == <<transportVars, catalogVars>>

(***************************************************************************)
(* Part I: transport state                                                 *)
(***************************************************************************)
NoneId == 0                    \* Python's None as a song id
SongIds == {5, 7}
NoneAction == "<None>"         \* data.get("action") of a dict without it
Actions == {"PLAY", "PAUSE", "SEEK", "CHANGE_SONG", "STOP"}
Positions == 0 .. MaxPos
Sids == 1 .. NumClients

\* The dicts a client may send with player_action. Every key is optional to
\* the handler; these are the shapes that differ in what the handler reads.
PlayerActionData ==
    [action : {"PLAY"}, song_id : SongIds, time : Positions]
        \cup [action : {"PLAY"}, song_id : SongIds]
        \cup [action : {"PAUSE", "SEEK"}, time : Positions]
        \cup [action : {"SEEK"}, song_id : SongIds, time : Positions]
        \cup [action : {"CHANGE_SONG"}, song_id : SongIds]
        \cup [action : Actions]
        \cup [song_id : SongIds, time : Positions]

\* dict.get(key, default)
Get(data, key, default) == IF key \in DOMAIN data THEN data[key] ELSE default

ActionOf(data) == Get(data, "action", NoneAction)

\* lines 93, 97, 100, 102 against the else of line 106
\* (RecognizedAlways is the handler without its else branch)
RecognizedAlways(data) == TRUE
Recognized(data) == ActionOf(data) \in {"PLAY", "PAUSE", "SEEK", "CHANGE_SONG"}

\* lines 83-84: current_time + (time.time() - last_update_time)
\* (AdjustedTimeNoDrift leaves the elapsed time out)
AdjustedTimeNoDrift(st, t) == st.current_time
AdjustedTime(st, t) == st.current_time + (t - st.last_update_time)

\* lines 81-85: the copy that handle_connect sends
\* (StateToSendAlwaysAdjusted drops the test of is_playing)
StateToSendAlwaysAdjusted(st, t) == [st EXCEPT !.current_time = AdjustedTime(st, t)]
StateToSend(st, t) ==
    IF st.is_playing
    THEN [st EXCEPT !.current_time = AdjustedTime(st, t)]
    ELSE st

\* line 81: the adjustment is made on a copy, server_state keeps its fields
StateAfterConnect(st, t) == st

\* lines 94-96
ApplyPlay(st, data) ==
    [st EXCEPT !.is_playing = TRUE,
               !.current_song_id = Get(data, "song_id", NoneId),
               !.current_time = Get(data, "time", 0)]

\* lines 98-99
ApplyPause(st, data) ==
    [st EXCEPT !.is_playing = FALSE,
               !.current_time = Get(data, "time", st.current_time)]

\* line 101 (ApplySeekAndPlay also resumes playback)
ApplySeekAndPlay(st, data) ==
    [st EXCEPT !.is_playing = TRUE, !.current_time = Get(data, "time", 0)]
ApplySeek(st, data) == [st EXCEPT !.current_time = Get(data, "time", 0)]

\* lines 103-105 (ApplyChangeSongKeepTime leaves line 105 out)
ApplyChangeSongKeepTime(st, data) ==
    [st EXCEPT !.is_playing = TRUE,
               !.current_song_id = Get(data, "song_id", NoneId)]
ApplyChangeSong(st, data) ==
    [st EXCEPT !.is_playing = TRUE,
               !.current_song_id = Get(data, "song_id", NoneId),
               !.current_time = 0]

\* lines 93-105: the branch taken
ApplyAction(st, data) ==
    CASE ActionOf(data) = "PLAY" -> ApplyPlay(st, data)
      [] ActionOf(data) = "PAUSE" -> ApplyPause(st, data)
      [] ActionOf(data) = "SEEK" -> ApplySeek(st, data)
      [] ActionOf(data) = "CHANGE_SONG" -> ApplyChangeSong(st, data)
      [] OTHER -> st

\* line 109: socketio.emit without `to` goes to every connected sid
\* (BroadcastToOthers is the emit with skip_sid=request.sid)
BroadcastToOthers(sid, conn) == conn \ {sid}
BroadcastTo(sid, conn) == conn

\* line 86: emit inside a handler goes to request.sid
\* (ConnectEmitToAll is socketio.emit, which goes to everybody)
ConnectEmitToAll(sid, conn) == conn \cup {sid}
ConnectEmitTo(sid, conn) == {sid}

NoAction == [data |-> [action |-> NoneAction], at |-> 0, stored |-> 0]

InitTransport ==
    /\ now = 0
    /\ server_state = [current_song_id |-> NoneId, is_playing |-> FALSE,
                       current_time |-> 0, last_update_time |-> 0]
    /\ connected = {}
    /\ event = [handler |-> "init", sid |-> 0, data |-> [action |-> NoneAction],
                at |-> 0]
    /\ pre_state = server_state
    /\ emitted = <<>>
    /\ last_action = NoAction
    /\ atomic_state = server_state

\* time passes between two handlers
Tick ==
    /\ now < MaxTime
    /\ now' = now + 1
    /\ UNCHANGED <<server_state, connected, event, pre_state, emitted, last_action,
                   atomic_state>>
    /\ UNCHANGED catalogVars

\* lines 78-86
handle_connect(sid) ==
    /\ sid \notin connected
    /\ connected' = connected \cup {sid}
    /\ server_state' = StateAfterConnect(server_state, now)
    /\ emitted' = <<[to |-> ConnectEmitTo(sid, connected),
                     payload |-> StateToSend(server_state, now)]>>
    /\ event' = [handler |-> "connect", sid |-> sid,
                 data |-> [action |-> NoneAction], at |-> now]
    /\ pre_state' = server_state
    /\ UNCHANGED <<now, last_action, atomic_state>>
    /\ UNCHANGED catalogVars

\* lines 88-109
handle_player_action(sid, data) ==
    /\ sid \in connected
    /\ IF Recognized(data)
       THEN /\ server_state' =
                  [ApplyAction(server_state, data) EXCEPT !.last_update_time = now]
            /\ emitted' = <<[to |-> BroadcastTo(sid, connected),
                             payload |-> server_state']>>
            /\ last_action' = [data |-> data, at |-> now,
                               stored |-> server_state'.current_time]
       ELSE /\ emitted' = <<>>
            /\ UNCHANGED <<server_state, last_action>>
    /\ event' = [handler |-> "player_action", sid |-> sid, data |-> data,
                 at |-> now]
    /\ pre_state' = server_state
    /\ atomic_state' = server_state'
    /\ UNCHANGED <<now, connected>>
    /\ UNCHANGED catalogVars

\* lines 111-113
handle_disconnect(sid) ==
    /\ sid \in connected
    /\ connected' = connected \ {sid}
    /\ emitted' = <<>>
    /\ event' = [handler |-> "disconnect", sid |-> sid,
                 data |-> [action |-> NoneAction], at |-> now]
    /\ pre_state' = server_state
    /\ UNCHANGED <<server_state, now, last_action, atomic_state>>
    /\ UNCHANGED catalogVars

Connect == \E sid \in Sids : handle_connect(sid)
PlayerAction == \E sid \in Sids, data \in PlayerActionData : handle_player_action(sid, data)
Disconnect == \E sid \in Sids : handle_disconnect(sid)

TransportNext == Tick \/ Connect \/ PlayerAction \/ Disconnect

(***************************************************************************)
(* Part II: the catalog, the blob store and the HTTP handlers              *)
(***************************************************************************)
Workers == {1, 2}

\* A filename as os.path.splitext (line 152) splits it: name and extension.
Filenames ==
    { [name |-> "song", ext |-> ".mp3"], [name |-> "song_1", ext |-> ".mp3"] }

\* what upload() finds wrong with a request before it touches S3
UploadInputs == {"ok", "bad_filename", "no_data", "bad_mime"}

NotAnInt == -1     \* an element of "order" that int() rejects ("x", None)

\* the ids a client may put in "order": of rows that exist, that existed and
\* that were never created
OrderIds == 1 .. MaxUploads

RECURSIVE SeqsUpTo(_, _)
SeqsUpTo(S, n) ==
    IF n = 0 THEN {<<>>}
    ELSE SeqsUpTo(S, n - 1)
            \cup { Append(q, x) : q \in { t \in SeqsUpTo(S, n - 1) : Len(t) = n - 1 },
                                  x \in S }

\* the lists sent as "order": lists of ids, and lists of ids up to a first
\* element that is no integer (the handler reads nothing after that element)
OrderLists ==
    SeqsUpTo(OrderIds, MaxOrderLen)
        \cup { Append(q, NotAnInt) : q \in SeqsUpTo(OrderIds, MaxOrderLen - 1) }

Idle == [handler |-> "none", pc |-> "idle"]

\* filename as the string the client sent
FileStr(f) == f.name \o f.ext

\* line 146 and line 154
UploadKey(safe_name) == "uploads/" \o safe_name

\* lines 152-153: name, ext = splitext(filename); f"{name}_{counter}{ext}"
SuffixedName(f, counter) == f.name \o "_" \o ToString(counter) \o f.ext

\* lines 196 and 299
ArtKey(id) == "art/" \o ToString(id) \o ".jpg"

\* line 150: head_object answers from the bucket (a 404 when the key is absent)
\* (HeadObjectNeverFound is the upload without the probe)
HeadObjectNeverFound(key, bucket) == FALSE
HeadObject(key, bucket) == key \in bucket

LivePaths == { r.path : r \in playlist }
LiveIds == { r.id : r \in playlist }
RowById(id) == CHOOSE r \in playlist : r.id = id

Max(S) == CHOOSE x \in S : \A y \in S : y <= x

\* line 182: SELECT max(ordering); the NULL of an empty table is 0 here, as
\* `max_order_result or 0` makes it on line 183
MaxOrdering(rows) == IF rows = {} THEN 0 ELSE Max({ r.ordering : r \in rows })

\* line 183: (max_order_result or 0) + 1
\* (NextOrderFromCount numbers the new row by the size of the table)
NextOrderFromCount(rows) == Cardinality(rows) + 1
NextOrder(rows) == MaxOrdering(rows) + 1

\* line 251: ORDER BY ordering ASC; the order of rows with equal ordering is
\* left to the database
Listings(rows) ==
    LET n == Cardinality(rows)
        ids == { r.id : r \in rows }
        ord(id) == (CHOOSE r \in rows : r.id = id).ordering
    IN { q \in [1 .. n -> ids] :
            /\ \A i, j \in 1 .. n : i # j => q[i] # q[j]
            /\ \A i, j \in 1 .. n : i < j => ord(q[i]) <= ord(q[j]) }

InitCatalog ==
    /\ playlist = {}
    /\ next_id = 1
    /\ blobs = {}
    /\ req = [w \in Workers |-> Idle]

Init == InitTransport /\ InitCatalog

Free(w) == req[w].pc \in {"idle", "done"}

\* what stays of a request once it is answered
Done(handler, status) == [handler |-> handler, pc |-> "done", status |-> status]

Respond(w, handler, status) == req' = [req EXCEPT ![w] = Done(handler, status)]

\* ---- upload, lines 131-212 ----

\* lines 133-147
UploadStart(w, input, f, has_image) ==
    /\ Free(w)
    /\ next_id <= MaxUploads
    /\ IF input # "ok"
       THEN Respond(w, "upload", 400)
       ELSE req' = [req EXCEPT ![w] =
                [handler |-> "upload", pc |-> "probe", filename |-> f,
                 safe_name |-> FileStr(f), s3_path |-> UploadKey(FileStr(f)),
                 counter |-> 1, has_image |-> has_image]]
    /\ UNCHANGED <<playlist, next_id, blobs>>
    /\ UNCHANGED transportVars

\* lines 148-158: one round of the loop; s3_error is a ClientError that is no 404
UploadProbe(w, s3_error) ==
    LET r == req[w] IN
    /\ r.pc = "probe"
    /\ IF s3_error
       THEN Respond(w, "upload", 500)
       ELSE IF HeadObject(r.s3_path, blobs)
            THEN req' = [req EXCEPT ![w] =
                     [r EXCEPT !.safe_name = SuffixedName(r.filename, r.counter),
                               !.s3_path = UploadKey(SuffixedName(r.filename, r.counter)),
                               !.counter = r.counter + 1]]
            ELSE req' = [req EXCEPT ![w] = [r EXCEPT !.pc = "put"]]
    /\ UNCHANGED <<playlist, next_id, blobs>>
    /\ UNCHANGED transportVars

\* lines 160-179: upload_fileobj, then the tags (no shared state)
UploadPut(w, s3_ok) ==
    LET r == req[w] IN
    /\ r.pc = "put"
    /\ IF s3_ok
       THEN /\ blobs' = blobs \cup {r.s3_path}
            /\ req' = [req EXCEPT ![w] = [r EXCEPT !.pc = "max"]]
       ELSE /\ blobs' = blobs
            /\ Respond(w, "upload", 500)
    /\ UNCHANGED <<playlist, next_id>>
    /\ UNCHANGED transportVars

\* lines 182-183
UploadMax(w) ==
    LET r == req[w] IN
    /\ r.pc = "max"
    /\ req' = [req EXCEPT ![w] =
                  [r EXCEPT !.pc = "commit"] @@ [next_order |-> NextOrder(playlist)]]
    /\ UNCHANGED <<playlist, next_id, blobs>>
    /\ UNCHANGED transportVars

\* line 62: column path is unique, so the INSERT of a path that a row already
\* has is refused (PathTakenNever is the column without the constraint)
PathTakenNever(path, rows) == FALSE
PathTaken(path, rows) == path \in { x.path : x \in rows }

\* lines 184-192: the INSERT; a refused INSERT ends the handler in an
\* IntegrityError
UploadCommit(w) ==
    LET r == req[w] IN
    /\ r.pc = "commit"
    /\ next_id' = next_id + 1
    /\ IF PathTaken(r.s3_path, playlist)
       THEN /\ playlist' = playlist
            /\ Respond(w, "upload", 500)
       ELSE /\ playlist' = playlist \cup
                  {[id |-> next_id, name |-> r.safe_name, path |-> r.s3_path,
                    has_art |-> 0, ordering |-> r.next_order]}
            /\ req' = [req EXCEPT ![w] =
                  IF r.has_image
                  THEN [handler |-> "upload", pc |-> "art", song_id |-> next_id]
                  ELSE Done("upload", 200) @@ [song_id |-> next_id, has_art |-> 0]]
    /\ UNCHANGED blobs
    /\ UNCHANGED transportVars

\* lines 194-212: the cover art; a failure is printed and the upload succeeds
UploadArt(w, s3_ok) ==
    LET r == req[w] IN
    /\ r.pc = "art"
    /\ IF s3_ok /\ r.song_id \in LiveIds
       THEN /\ blobs' = blobs \cup {ArtKey(r.song_id)}
            /\ playlist' = (playlist \ {RowById(r.song_id)})
                              \cup {[RowById(r.song_id) EXCEPT !.has_art = 1]}
            /\ req' = [req EXCEPT ![w] =
                  Done("upload", 200) @@ [song_id |-> r.song_id, has_art |-> 1]]
       ELSE /\ blobs' = IF s3_ok THEN blobs \cup {ArtKey(r.song_id)} ELSE blobs
            /\ playlist' = playlist
            /\ req' = [req EXCEPT ![w] =
                  Done("upload", 200) @@ [song_id |-> r.song_id, has_art |-> 0]]
    /\ UNCHANGED next_id
    /\ UNCHANGED transportVars

\* ---- get_playlist, lines 249-256 ----
get_playlist(w) ==
    /\ Free(w)
    /\ \E q \in Listings(playlist) :
          req' = [req EXCEPT ![w] =
                     Done("get_playlist", 200) @@ [body |-> q]]
    /\ UNCHANGED <<playlist, next_id, blobs>>
    /\ UNCHANGED transportVars

\* ---- delete_song, lines 286-306 ----

\* lines 288-292; id 0 stands for a request without id
DeleteStart(w, id) ==
    /\ Free(w)
    /\ IF id = 0
       THEN Respond(w, "delete_song", 400)
       ELSE IF id \notin LiveIds
            THEN Respond(w, "delete_song", 404)
            ELSE req' = [req EXCEPT ![w] =
                     [handler |-> "delete_song", pc |-> "s3", song |-> RowById(id)]]
    /\ UNCHANGED <<playlist, next_id, blobs>>
    /\ UNCHANGED transportVars

\* lines 294-301: the two delete_object calls in one try; the first that fails
\* ends the block
DeleteBlobs(w, track_ok, art_ok) ==
    LET r == req[w] IN
    /\ r.pc = "s3"
    /\ blobs' = IF ~track_ok THEN blobs
                ELSE IF r.song.has_art = 1 /\ art_ok
                     THEN blobs \ {r.song.path, ArtKey(r.song.id)}
                     ELSE blobs \ {r.song.path}
    /\ req' = [req EXCEPT ![w] =
                  [r EXCEPT !.pc = "row"]
                      @@ [s3_failed |-> ~track_ok \/ (r.song.has_art = 1 /\ ~art_ok)]]
    /\ UNCHANGED <<playlist, next_id>>
    /\ UNCHANGED transportVars

\* lines 302-305: the except block of lines 300-301 only prints, so the row
\* is deleted whatever the S3 calls did
\* (RowsAfterDeleteIfClean is the handler that stops at a failed S3 call)
RowsAfterDeleteIfClean(rows, song, s3_failed) ==
    IF s3_failed THEN rows ELSE { x \in rows : x.id # song.id }
RowsAfterDelete(rows, song, s3_failed) == { x \in rows : x.id # song.id }

\* lines 303-306; the DELETE of a row that another request has removed
\* matches no row and the commit raises
DeleteRow(w) ==
    LET r == req[w] IN
    /\ r.pc = "row"
    /\ playlist' = RowsAfterDelete(playlist, r.song, r.s3_failed)
    /\ req' = [req EXCEPT ![w] =
                  Done("delete_song", IF r.song.id \in LiveIds THEN 200 ELSE 500)
                      @@ [song_id |-> r.song.id, s3_failed |-> r.s3_failed]]
    /\ UNCHANGED <<next_id, blobs>>
    /\ UNCHANGED transportVars

\* ---- reorder_playlist, lines 321-336 ----

\* line 330: song.ordering = index (enumerate counts from 0); the change stays
\* in the session until the commit
\* (AssignFromOne is enumerate(order, 1))
AssignFromOne(pending, id, i) == (id :> i) @@ pending
Assign(pending, id, i) == (id :> i - 1) @@ pending

\* lines 328-330: the session's changes after the first k elements of order;
\* an id without a row is skipped
RECURSIVE PendingAfter(_, _, _)
PendingAfter(order, k, ids) ==
    IF k = 0 THEN <<>>
    ELSE LET prev == PendingAfter(order, k - 1, ids)
         IN IF order[k] \in ids THEN Assign(prev, order[k], k) ELSE prev

\* line 331: the commit writes the session's changes
ApplyPending(rows, pending) ==
    { IF x.id \in DOMAIN pending
      THEN [x EXCEPT !.ordering = pending[x.id]]
      ELSE x : x \in rows }

\* lines 328-331 for a list without an element that int() rejects
ReorderedRows(rows, order) ==
    ApplyPending(rows, PendingAfter(order, Len(order), { x.id : x \in rows }))

\* line 329: int(song_id) raises on an element that is no integer
IntRaises(order) == \E i \in 1 .. Len(order) : order[i] = NotAnInt

\* the first element of order on which int() raises
FirstBad(order) ==
    CHOOSE i \in 1 .. Len(order) :
        order[i] = NotAnInt /\ \A j \in 1 .. i - 1 : order[j] # NotAnInt

\* lines 333-334: the rollback drops what the loop has assigned
\* (KeptAssigned is the handler that commits what was assigned before the
\* element that raised)
KeptAssigned(rows, order) ==
    ApplyPending(rows,
                 PendingAfter(order, FirstBad(order) - 1, { x.id : x \in rows }))
RolledBack(rows, order) == rows

\* lines 324-325, 332, 336
ReorderStatus(is_list, order) ==
    IF ~is_list THEN 400 ELSE IF IntRaises(order) THEN 500 ELSE 200

\* the table after the call
ReorderResult(rows, is_list, order) ==
    IF ~is_list THEN rows
    ELSE IF IntRaises(order) THEN RolledBack(rows, order)
    ELSE ReorderedRows(rows, order)

\* lines 321-336, one request at a time
reorder_playlist(w, is_list, order) ==
    /\ Free(w)
    /\ playlist' = ReorderResult(playlist, is_list, order)
    /\ Respond(w, "reorder_playlist", ReorderStatus(is_list, order))
    /\ UNCHANGED <<next_id, blobs>>
    /\ UNCHANGED transportVars

\* the same call, with the list it got and the table it found kept beside
\* its answer
ReorderCall(w, is_list, order) ==
    /\ Free(w)
    /\ playlist' = ReorderResult(playlist, is_list, order)
    /\ req' = [req EXCEPT ![w] =
                  Done("reorder_playlist", ReorderStatus(is_list, order))
                      @@ [order |-> order, before |-> playlist]]
    /\ UNCHANGED <<next_id, blobs>>
    /\ UNCHANGED transportVars

\* the answer is sent and the worker waits for the next request
Close(w) ==
    /\ req[w].pc = "done"
    /\ req' = [req EXCEPT ![w] = Idle]
    /\ UNCHANGED <<playlist, next_id, blobs>>
    /\ UNCHANGED transportVars

Waiting(w) == req[w].pc = "idle"

\* ---- the steps of one worker's request ----
UploadBy(w) ==
    \/ \E input \in UploadInputs, f \in Filenames, has_image \in BOOLEAN :
          UploadStart(w, input, f, has_image)
    \/ \E s3_error \in BOOLEAN : UploadProbe(w, s3_error)
    \/ \E s3_ok \in BOOLEAN : UploadPut(w, s3_ok)
    \/ UploadMax(w)
    \/ UploadCommit(w)
    \/ \E s3_ok \in BOOLEAN : UploadArt(w, s3_ok)

DeleteSongBy(w) ==
    \/ \E id \in 0 .. MaxUploads : DeleteStart(w, id)
    \/ \E track_ok, art_ok \in BOOLEAN : DeleteBlobs(w, track_ok, art_ok)
    \/ DeleteRow(w)

\* ---- one request at a time: worker 1 handles every request ----
Upload == UploadBy(1)

GetPlaylist == get_playlist(1)

DeleteSong == DeleteSongBy(1)

ReorderPlaylist ==
    \/ \E order \in OrderLists : reorder_playlist(1, TRUE, order)
    \/ reorder_playlist(1, FALSE, <<>>)

CatalogNext == Upload \/ GetPlaylist \/ DeleteSong \/ ReorderPlaylist

TransportSpec == Init /\ [][TransportNext]_vars

\* every HTTP handler of the catalog, one request at a time
CatalogSpec == Init /\ [][CatalogNext]_vars

\* the handlers that create, remove and list storage keys (reorder_playlist
\* writes column ordering only)
StorageNext == Upload \/ DeleteSong \/ GetPlaylist

StorageSpec == Init /\ [][StorageNext]_vars

\* two uploads in flight: each worker runs its handler from one S3 or
\* database call to the next, and the other worker may run in between
ConcurrentUploadNext == \E w \in Workers : UploadBy(w)

ConcurrentUploadSpec == Init /\ [][ConcurrentUploadNext]_vars

\* ---- reorder_playlist call by call to the database, lines 326-336 ----
\* The session of a request (its identity map and its open transaction) is in
\* req[w]: seen holds the ordering of every row the session has loaded,
\* pending the ordering the handler has assigned, written the UPDATEs sent
\* in the open transaction; the transaction holds the lock of every row it
\* has updated until it commits or rolls back.

\* the value the database has for the row in this transaction
BaseValue(r, id) == IF id \in DOMAIN r.written THEN r.written[id] ELSE r.seen[id]

\* the flush sends an UPDATE for a row only if the assigned value differs
\* from the value the session loaded or wrote last
Dirty(r) == { id \in DOMAIN r.pending : r.pending[id] # BaseValue(r, id) }

InReorder(w) == req[w].handler = "reorder_playlist" /\ req[w].pc = "loop"

\* the loop of line 328 has run through the list
LoopDone(r) == r.i > Len(r.order)

\* db.session.get on line 329 sends a SELECT for a row that is not in the
\* identity map, the commit of line 331 ends the transaction; both flush first
NeedsFlush(r) ==
    /\ Dirty(r) # {}
    /\ IF LoopDone(r) THEN TRUE
       ELSE r.order[r.i] # NotAnInt /\ r.order[r.i] \notin DOMAIN r.seen

\* the rows are flushed in the order of their primary key
NextFlush(r) == CHOOSE id \in Dirty(r) : \A other \in Dirty(r) : id <= other

LockedByOther(w, id) ==
    \E v \in Workers \ {w} : InReorder(v) /\ id \in DOMAIN req[v].written

\* lines 323-327
ReorderBegin(w, order) ==
    /\ Free(w)
    /\ req' = [req EXCEPT ![w] =
                  [handler |-> "reorder_playlist", pc |-> "loop", order |-> order,
                   i |-> 1, seen |-> <<>>, pending |-> <<>>, written |-> <<>>,
                   before |-> playlist]]
    /\ UNCHANGED <<playlist, next_id, blobs>>
    /\ UNCHANGED transportVars

\* one UPDATE of a flush; it waits while another transaction holds the row
ReorderFlush(w) ==
    LET r == req[w] IN
    /\ InReorder(w)
    /\ NeedsFlush(r)
    /\ ~LockedByOther(w, NextFlush(r))
    /\ req' = [req EXCEPT ![w] =
                  [r EXCEPT !.written =
                      (NextFlush(r) :> r.pending[NextFlush(r)]) @@ r.written]]
    /\ UNCHANGED <<playlist, next_id, blobs>>
    /\ UNCHANGED transportVars

\* lines 329-330 for one element of order; line 334 when int() raises
ReorderGet(w) ==
    LET r == req[w]
        id == r.order[r.i]
        step == [r EXCEPT !.i = r.i + 1]
    IN /\ InReorder(w)
       /\ ~LoopDone(r)
       /\ ~NeedsFlush(r)
       /\ req' = [req EXCEPT ![w] =
             IF id = NotAnInt
             THEN Done("reorder_playlist", 500) @@ [order |-> r.order, before |-> r.before]
             ELSE IF id \in DOMAIN r.seen
             THEN [step EXCEPT !.pending = Assign(r.pending, id, r.i)]
             ELSE IF id \in LiveIds
             THEN [step EXCEPT !.seen = (id :> RowById(id).ordering) @@ r.seen,
                               !.pending = Assign(r.pending, id, r.i)]
             ELSE step]
       /\ UNCHANGED <<playlist, next_id, blobs>>
       /\ UNCHANGED transportVars

\* line 331, after the flush: the transaction's UPDATEs become the table's
ReorderCommit(w) ==
    LET r == req[w] IN
    /\ InReorder(w)
    /\ LoopDone(r)
    /\ ~NeedsFlush(r)
    /\ playlist' = ApplyPending(playlist, r.written)
    /\ req' = [req EXCEPT ![w] =
                  Done("reorder_playlist", 200) @@ [order |-> r.order, before |-> r.before]]
    /\ UNCHANGED <<next_id, blobs>>
    /\ UNCHANGED transportVars

\* two flushes wait for each other's row: the database ends one of the two
\* transactions with an error, and line 334 rolls it back
ReorderDeadlock(w) ==
    LET r == req[w] IN
    /\ InReorder(w)
    /\ NeedsFlush(r)
    /\ \E v \in Workers \ {w} :
          /\ InReorder(v)
          /\ NeedsFlush(req[v])
          /\ NextFlush(r) \in DOMAIN req[v].written
          /\ NextFlush(req[v]) \in DOMAIN r.written
    /\ req' = [req EXCEPT ![w] =
                  Done("reorder_playlist", 500) @@ [order |-> r.order, before |-> r.before]]
    /\ UNCHANGED <<playlist, next_id, blobs>>
    /\ UNCHANGED transportVars

\* an upload of song.mp3 without a picture, with S3 answering
PlainUpload(w) ==
    \/ UploadStart(w, "ok", [name |-> "song", ext |-> ".mp3"], FALSE)
    \/ UploadProbe(w, FALSE)
    \/ UploadPut(w, TRUE)
    \/ UploadMax(w)
    \/ UploadCommit(w)

\* the handlers that read or write column ordering, one request at a time,
\* with S3 answering every call
OrderingNext ==
    \/ Waiting(1) /\ UploadStart(1, "ok", [name |-> "song", ext |-> ".mp3"], FALSE)
    \/ UploadProbe(1, FALSE)
    \/ UploadPut(1, TRUE)
    \/ UploadMax(1)
    \/ UploadCommit(1)
    \/ Waiting(1) /\ \E id \in 1 .. MaxUploads : DeleteStart(1, id)
    \/ DeleteBlobs(1, TRUE, TRUE)
    \/ DeleteRow(1)
    \/ Waiting(1) /\ get_playlist(1)
    \/ Waiting(1) /\ \E order \in OrderLists : ReorderCall(1, TRUE, order)
    \/ Waiting(1) /\ ReorderCall(1, FALSE, <<>>)
    \/ Close(1)

OrderingSpec == Init /\ [][OrderingNext]_vars

NoReorderYet == \A w \in Workers : req[w].handler # "reorder_playlist"

\* uploads one at a time fill the catalog, then each worker handles one
\* reorder call, the two in flight together
ConcurrentReorderNext ==
    \/ NoReorderYet /\ PlainUpload(1)
    \/ \E w \in Workers :
          \/ \E order \in OrderLists :
                req[w].handler # "reorder_playlist" /\ ReorderBegin(w, order)
          \/ ReorderGet(w)
          \/ ReorderFlush(w)
          \/ ReorderCommit(w)
          \/ ReorderDeadlock(w)

ConcurrentReorderSpec == Init /\ [][ConcurrentReorderNext]_vars

(***************************************************************************)
(* Part III: the socket handlers line by line, as green threads            *)
(*                                                                         *)
(* Socket.IO runs every handler in a green thread of its own (line 72:     *)
(* async_mode='eventlet'); req[w] is the green thread w: the handler it    *)
(* runs, the lines it has still to run and its locals.                     *)
(***************************************************************************)

\* The hub switches green threads only inside a blocking call, and no line of
\* handle_connect or handle_player_action makes one (lines 80-86, 90-109)
\* (SwitchBeforeAnyLine is a build with preemptive threads)
SwitchBeforeAnyLine(line) == TRUE
SwitchBefore(line) == FALSE

\* the lines of handle_player_action that the action's branch runs
LinesOf(data) ==
    CASE ActionOf(data) = "PLAY" -> <<94, 95, 96, 108, 109>>
      [] ActionOf(data) = "PAUSE" -> <<98, 99, 108, 109>>
      [] ActionOf(data) = "SEEK" -> <<101, 108, 109>>
      [] ActionOf(data) = "CHANGE_SONG" -> <<103, 104, 105, 108, 109>>
      [] OTHER -> <<>>

\* what one line of handle_player_action writes to server_state at time t
ExecLine(st, data, line, t) ==
    CASE line = 94 -> [st EXCEPT !.is_playing = TRUE]
      [] line = 95 -> [st EXCEPT !.current_song_id = Get(data, "song_id", NoneId)]
      [] line = 96 -> [st EXCEPT !.current_time = Get(data, "time", 0)]
      [] line = 98 -> [st EXCEPT !.is_playing = FALSE]
      [] line = 99 -> [st EXCEPT !.current_time = Get(data, "time", st.current_time)]
      [] line = 101 -> [st EXCEPT !.current_time = Get(data, "time", 0)]
      [] line = 103 -> [st EXCEPT !.is_playing = TRUE]
      [] line = 104 -> [st EXCEPT !.current_song_id = Get(data, "song_id", NoneId)]
      [] line = 105 -> [st EXCEPT !.current_time = 0]
      [] line = 108 -> [st EXCEPT !.last_update_time = t]
      [] OTHER -> st

\* green thread w has run a line of its handler and has lines left
Started(w) == req[w].pc = "run" /\ req[w].started

\* w gets the processor: no other green thread is inside its handler, or the
\* one that is has been switched out
CanRun(w) ==
    \A v \in Workers \ {w} : Started(v) => SwitchBefore(Head(req[v].todo))

\* the events sent while handlers run line by line: one dict for each branch
\* of lines 93-107
LineByLineData ==
    { [action |-> "PLAY", song_id |-> 5, time |-> MaxPos],
      [action |-> "PAUSE", time |-> 0],
      [action |-> "PAUSE"],
      [action |-> "SEEK", time |-> MaxPos],
      [action |-> "CHANGE_SONG", song_id |-> 7],
      [action |-> "STOP"] }

\* a new green thread takes the first free slot; it is made by the hub, which
\* runs when no handler holds the processor
FirstFree(w) ==
    /\ Free(w)
    /\ \A v \in Workers : v < w => ~Free(v)
    /\ CanRun(w)

\* the event arrives and its green thread is made; an unrecognized action
\* returns on line 107 and touches nothing
PlayerActionBegin(w, sid, data) ==
    /\ FirstFree(w)
    /\ sid \in connected
    /\ req' = [req EXCEPT ![w] =
                  IF LinesOf(data) = <<>> THEN Idle
                  ELSE [handler |-> "player_action", pc |-> "run",
                        data |-> data, todo |-> LinesOf(data), started |-> FALSE]]
    /\ UNCHANGED <<playlist, next_id, blobs>>
    /\ UNCHANGED transportVars

\* the next line of handle_player_action; atomic_state takes the whole action
\* at the line that stamps it (108); line 109 sends the dict as it is then to
\* every connected sid, whoever sent the event
PlayerActionLine(w) ==
    LET r == req[w]
        line == Head(r.todo)
    IN /\ r.handler = "player_action"
       /\ r.pc = "run"
       /\ CanRun(w)
       /\ server_state' = ExecLine(server_state, r.data, line, now)
       /\ atomic_state' =
             IF line = 108
             THEN [ApplyAction(atomic_state, r.data) EXCEPT !.last_update_time = now]
             ELSE atomic_state
       /\ emitted' =
             IF line = 109
             THEN <<[to |-> connected, payload |-> server_state]>>
             ELSE emitted
       /\ req' = [req EXCEPT ![w] =
                     IF line = 109 THEN Idle
                     ELSE [r EXCEPT !.todo = Tail(r.todo), !.started = TRUE]]
       /\ UNCHANGED <<now, connected, event, pre_state, last_action>>
       /\ UNCHANGED <<playlist, next_id, blobs>>

\* a client connects and the green thread of handle_connect is made
ConnectBegin(w, sid) ==
    /\ FirstFree(w)
    /\ sid \notin connected
    /\ connected' = connected \cup {sid}
    /\ req' = [req EXCEPT ![w] =
                  [handler |-> "connect", pc |-> "run", sid |-> sid,
                   todo |-> <<81, 82, 83, 84, 85, 86>>, started |-> FALSE,
                   state_to_send |-> server_state, t |-> 0,
                   time_elapsed |-> 0, adjusted_time |-> 0]]
    /\ UNCHANGED <<server_state, now, event, pre_state, emitted, last_action,
                   atomic_state>>
    /\ UNCHANGED <<playlist, next_id, blobs>>

\* the next line of handle_connect: 81 copies the dict, 82-84 read the dict
\* itself, 85 writes to the copy, 86 sends the copy
ConnectLine(w) ==
    LET r == req[w]
        line == Head(r.todo)
        rest == [r EXCEPT !.todo = Tail(r.todo), !.started = TRUE]
    IN /\ r.handler = "connect"
       /\ r.pc = "run"
       /\ CanRun(w)
       /\ req' = [req EXCEPT ![w] =
             CASE line = 81 -> [rest EXCEPT !.state_to_send = server_state]
               [] line = 82 -> IF server_state.is_playing THEN rest
                               ELSE [rest EXCEPT !.todo = <<86>>]
               [] line = 83 ->
                    [rest EXCEPT !.t = now,
                                 !.time_elapsed = now - server_state.last_update_time]
               [] line = 84 ->
                    [rest EXCEPT !.adjusted_time =
                                    server_state.current_time + r.time_elapsed]
               [] line = 85 ->
                    [rest EXCEPT !.state_to_send.current_time = r.adjusted_time]
               [] OTHER -> Idle]
       /\ emitted' =
             IF line = 86
             THEN <<[to |-> ConnectEmitTo(r.sid, connected),
                     payload |-> r.state_to_send]>>
             ELSE emitted
       /\ UNCHANGED <<server_state, now, connected, event, pre_state, last_action,
                      atomic_state>>
       /\ UNCHANGED <<playlist, next_id, blobs>>

GreenThreadNext ==
    \/ Tick
    \/ \E w \in Workers :
          \/ \E sid \in Sids, data \in LineByLineData : PlayerActionBegin(w, sid, data)
          \/ PlayerActionLine(w)
          \/ \E sid \in Sids : ConnectBegin(w, sid)
          \/ ConnectLine(w)

GreenThreadSpec == Init /\ [][GreenThreadNext]_vars

(***************************************************************************)
(* Claims about the transport state, checked under TransportSpec.          *)
(***************************************************************************)
AcceptedNames == {"PLAY", "PAUSE", "SEEK", "CHANGE_SONG"}

JoinedAfter(a) ==
    /\ event.handler = "connect"
    /\ ActionOf(last_action.data) = a

Elapsed == event.at - last_action.at

\* C1: a PLAY with position p and track k accepted at t0, no player_action
\* accepted afterwards: a client connecting at t0+D receives one state_update
\* with current_time = p+D, is_playing true and current_song_id = k.
C1_DriftAdjustedJoin ==
    (/\ JoinedAfter("PLAY")
     /\ {"time", "song_id"} \subseteq DOMAIN last_action.data)
        => /\ Len(emitted) = 1
           /\ event.sid \in emitted[1].to
           /\ emitted[1].payload.current_time = last_action.data.time + Elapsed
           /\ emitted[1].payload.is_playing = TRUE
           /\ emitted[1].payload.current_song_id = last_action.data.song_id

C1_Witness ==
    /\ JoinedAfter("PLAY")
    /\ {"time", "song_id"} \subseteq DOMAIN last_action.data
    /\ last_action.data.time = 1
    /\ Elapsed = 2
    /\ emitted[1].payload.current_time = 3

\* C2: after a PAUSE accepted at t1, a client connecting at any t > t1 with no
\* player_action in between receives the position stored at pause time,
\* whatever the elapsed time.
C2_PauseFreezes ==
    (JoinedAfter("PAUSE") /\ Elapsed > 0)
        => /\ Len(emitted) = 1
           /\ event.sid \in emitted[1].to
           /\ emitted[1].payload.current_time = last_action.stored
           /\ emitted[1].payload.is_playing = FALSE

C2_Witness ==
    /\ JoinedAfter("PAUSE")
    /\ Elapsed = 2
    /\ last_action.stored = 1
    /\ emitted[1].payload.current_time = 1

Handled(a) ==
    /\ event.handler = "player_action"
    /\ ActionOf(event.data) = a

\* C3: a PAUSE without time, accepted at t1 while playing with stored position
\* p and last event time t0, leaves is_playing false and the stored position
\* p + (t1 - t0); a PAUSE with a time stores that time.
C3_PauseStoresComputedPosition ==
    /\ (Handled("PAUSE") /\ "time" \notin DOMAIN event.data /\ pre_state.is_playing)
          => /\ server_state.is_playing = FALSE
             /\ server_state.current_time =
                    pre_state.current_time + (event.at - pre_state.last_update_time)
    /\ (Handled("PAUSE") /\ "time" \in DOMAIN event.data)
          => /\ server_state.is_playing = FALSE
             /\ server_state.current_time = event.data.time

\* C4: CHANGE_SONG with track k, in any state and at any time, leaves
\* current_song_id = k, is_playing true and the stored position 0.
C4_ChangeSongResets ==
    (Handled("CHANGE_SONG") /\ "song_id" \in DOMAIN event.data)
        => /\ server_state.current_song_id = event.data.song_id
           /\ server_state.is_playing = TRUE
           /\ server_state.current_time = 0

\* the scenario: PLAY(5, at 0) at T, CHANGE_SONG(7) later, with time elapsed
C4_Witness ==
    /\ Handled("CHANGE_SONG")
    /\ "song_id" \in DOMAIN event.data
    /\ event.data.song_id = 7
    /\ pre_state = [current_song_id |-> 5, is_playing |-> TRUE,
                    current_time |-> 0, last_update_time |-> 0]
    /\ event.at = 2
    /\ server_state = [current_song_id |-> 7, is_playing |-> TRUE,
                       current_time |-> 0, last_update_time |-> 2]

\* C5: SEEK with time s stores position s and last event time now, and leaves
\* is_playing and the active track as they were, playing or paused.
C5_SeekFrame ==
    (Handled("SEEK") /\ "time" \in DOMAIN event.data)
        => /\ server_state.current_time = event.data.time
           /\ server_state.last_update_time = event.at
           /\ server_state.is_playing = pre_state.is_playing
           /\ server_state.current_song_id = pre_state.current_song_id

C5_Witness ==
    /\ Handled("SEEK")
    /\ "time" \in DOMAIN event.data
    /\ event.data.time = 1
    /\ pre_state.is_playing = FALSE
    /\ pre_state.current_song_id = 5
    /\ pre_state.current_time = 0
    /\ pre_state.last_update_time < event.at
    /\ server_state.current_time = 1

\* C6: a player_action whose action is not recognized, or is missing, changes
\* no field of the transport state (last event time included) and broadcasts
\* nothing.
C6_UnrecognizedIsNoOp ==
    (event.handler = "player_action" /\ ActionOf(event.data) \notin AcceptedNames)
        => /\ server_state = pre_state
           /\ emitted = <<>>

C6_Witness ==
    /\ event.handler = "player_action"
    /\ "action" \notin DOMAIN event.data
    /\ server_state.is_playing
    /\ server_state.last_update_time < event.at
    /\ connected = Sids

\* C7: an accepted player action is applied first and then broadcast as one
\* state_update to every connected channel, the sender included, and the
\* broadcast carries the stored state that results from the action.
C7_BroadcastToAll ==
    (event.handler = "player_action" /\ ActionOf(event.data) \in AcceptedNames)
        => /\ Len(emitted) = 1
           /\ emitted[1].to = connected
           /\ event.sid \in emitted[1].to
           /\ emitted[1].payload = server_state
           /\ emitted[1].payload =
                  [ApplyAction(pre_state, event.data) EXCEPT !.last_update_time = event.at]

C7_Witness ==
    /\ Handled("PLAY")
    /\ connected = Sids
    /\ Cardinality(emitted[1].to) = 2
    /\ pre_state.is_playing = FALSE
    /\ emitted[1].payload.is_playing = TRUE
    /\ emitted[1].payload.last_update_time = 1

ConnectPayload ==
    [pre_state EXCEPT !.current_time =
        IF pre_state.is_playing
        THEN pre_state.current_time + (event.at - pre_state.last_update_time)
        ELSE pre_state.current_time]

\* C8: connect and disconnect never change the transport state; a connect
\* delivers exactly one drift-adjusted state_update, to the joining channel
\* only; a disconnect delivers nothing.
C8_ConnectDisconnectFrame ==
    /\ event.handler = "connect"
          => /\ server_state = pre_state
             /\ emitted = <<[to |-> {event.sid}, payload |-> ConnectPayload]>>
    /\ event.handler = "disconnect"
          => /\ server_state = pre_state
             /\ emitted = <<>>

C8_Witness ==
    /\ event.handler = "connect"
    /\ Cardinality(connected) = 2
    /\ server_state.is_playing
    /\ emitted[1].payload.current_time > server_state.current_time

C8_WitnessDisconnect ==
    /\ event.handler = "disconnect"
    /\ Cardinality(connected) = 1
    /\ server_state.is_playing

(***************************************************************************)
(* Claims about the catalog, one request at a time.                        *)
(***************************************************************************)
KeyChosen(w) == req[w].handler = "upload" /\ req[w].pc \in {"put", "max", "commit"}

\* C9: in every sequence of uploads and deletes handled one at a time, the
\* storage key an upload settles on differs from the key of every live track,
\* so no two live tracks share a key; an upload of "song.mp3" while a live
\* track holds uploads/song.mp3 and uploads/song_1.mp3 is free gets
\* uploads/song_1.mp3.
C9_StorageKeyUnique ==
    /\ KeyChosen(1) => req[1].s3_path \notin LivePaths
    /\ \A r1, r2 \in playlist : r1.id # r2.id => r1.path # r2.path
    /\ (/\ req[1].handler = "upload"
        /\ req[1].pc = "put"
        /\ req[1].filename = [name |-> "song", ext |-> ".mp3"]
        /\ "uploads/song.mp3" \in LivePaths
        /\ "uploads/song_1.mp3" \notin blobs)
          => req[1].s3_path = "uploads/song_1.mp3"

\* two uploads of song.mp3 are live, with a delete between the uploads
C9_Witness ==
    /\ req[1].handler = "upload"
    /\ req[1].pc = "done"
    /\ req[1].status = 200
    /\ req[1].song_id = 3
    /\ { r.path : r \in playlist } = {"uploads/song.mp3", "uploads/song_1.mp3"}
    /\ RowById(3).path = "uploads/song_1.mp3"
    /\ RowById(3).name = "song_1.mp3"

\* C10: after any sequence of uploads, reorders and deletes, with reorder
\* called on any list of ids, the listing returns tracks whose ordering values
\* are pairwise distinct and ascending in the returned order.
C10_ListingStrictlyAscending ==
    (req[1].handler = "get_playlist" /\ req[1].pc = "done")
        => \A i, j \in 1 .. Len(req[1].body) :
              i < j => RowById(req[1].body[i]).ordering
                          < RowById(req[1].body[j]).ordering

(***************************************************************************)
(* Claims about uploads in flight together, checked under                  *)
(* ConcurrentUploadSpec.                                                   *)
(***************************************************************************)

\* C14: no two rows of the catalog ever have the same storage key, also when
\* two uploads of the same filename are in flight together and both find the
\* same key free before either writes.
C14_ConcurrentKeysDistinct ==
    \A r1, r2 \in playlist : r1.id # r2.id => r1.path # r2.path

\* both uploads found uploads/song.mp3 free and wrote the blob; worker 1's
\* row is in, worker 2's INSERT was refused
C14_Witness ==
    /\ req[1] = Done("upload", 200) @@ [song_id |-> 1, has_art |-> 0]
    /\ req[2] = Done("upload", 500)
    /\ next_id = 3
    /\ LivePaths = {"uploads/song.mp3"}
    /\ blobs = {"uploads/song.mp3"}

\* C11: two uploads handled concurrently never end up with the same ordering
\* value: in every interleaving of the steps of two uploads, the rows they
\* create have different orderings.
C11_ConcurrentUploadsDistinctOrdering ==
    \A r1, r2 \in playlist : r1.id # r2.id => r1.ordering # r2.ordering

(***************************************************************************)
(* More claims about the catalog, one request at a time.                   *)
(***************************************************************************)
DeleteAnswered(w) ==
    /\ req[w].handler = "delete_song"
    /\ req[w].pc = "done"
    /\ "s3_failed" \in DOMAIN req[w]

\* C12: when delete_song is called for an existing track and the removal of
\* its track blob or of its art blob fails, the request is answered with
\* success and the track's row is gone; an id that has left the catalog never
\* comes back, and a listing holds ids of live rows only, so no later listing
\* contains the track.
C12_DeleteDespiteBlobFailure ==
    /\ [](/\ (DeleteAnswered(1) /\ req[1].s3_failed)
                => (req[1].status = 200 /\ req[1].song_id \notin LiveIds)
          /\ (req[1].handler = "get_playlist" /\ req[1].pc = "done")
                => \A i \in 1 .. Len(req[1].body) : req[1].body[i] \in LiveIds)
    /\ [][\A id \in 1 .. MaxUploads :
             (id < next_id /\ id \notin LiveIds) => id \notin LiveIds']_vars

\* the delete of the only track was answered with success although the blob
\* could not be removed: the row is gone, the blob is still there
C12_Witness ==
    /\ DeleteAnswered(1)
    /\ req[1].s3_failed
    /\ req[1].status = 200
    /\ req[1].song_id = 1
    /\ playlist = {}
    /\ blobs = {"uploads/song.mp3"}

\* C13: in every reachable state, the states between the steps of an upload
\* or a delete and the states after a failed step included, the track blob of
\* every catalog row is in the blob store.
C13_RowHasBlob == \A r \in playlist : r.path \in blobs

(***************************************************************************)
(* Claims about the socket handlers as green threads, checked under        *)
(* GreenThreadSpec.                                                        *)
(***************************************************************************)

\* green thread w runs the line that sends state_update (86 or 109)
Sends(w) == req[w].pc = "run" /\ req'[w].pc = "idle"

\* C15: in every interleaving of player_action and connect handlers, what a
\* handler sends is never torn: a broadcast is the state right after the last
\* accepted action, all four fields, and a snapshot is that state with the
\* position adjusted to the time the handler read.
C15_NoTornState ==
    [][\A w \in Workers :
          Sends(w) =>
             /\ Len(emitted') = 1
             /\ emitted'[1].payload =
                   IF req[w].handler = "player_action"
                   THEN atomic_state'
                   ELSE StateToSend(atomic_state', req[w].t)]_vars

\* a snapshot with an adjusted position was sent to a joining client while the
\* green thread of a player_action was waiting for the processor
C15_Witness ==
    /\ Len(emitted) = 1
    /\ emitted[1].payload.is_playing
    /\ emitted[1].payload.current_time > server_state.current_time
    /\ req[1] = Idle
    /\ req[2].handler = "player_action"
    /\ req[2].pc = "run"

(***************************************************************************)
(* Claims about reorder calls in flight together, checked under            *)
(* ConcurrentReorderSpec.                                                  *)
(***************************************************************************)
ReorderAnswered(w, status) ==
    /\ req[w].handler = "reorder_playlist"
    /\ req[w].pc = "done"
    /\ req[w].status = status

\* C16: when two reorder calls in flight together have both succeeded, the
\* orderings are those of running one call after the other, in one of the two
\* orders; the index assignments of the two calls are never mixed.
C16_ReordersSerialize ==
    (ReorderAnswered(1, 200) /\ ReorderAnswered(2, 200))
        => \/ playlist = ReorderedRows(ReorderedRows(req[1].before, req[1].order),
                                       req[2].order)
           \/ playlist = ReorderedRows(ReorderedRows(req[2].before, req[2].order),
                                       req[1].order)

(***************************************************************************)
(* Claims about column ordering, one request at a time, checked under      *)
(* OrderingSpec.                                                           *)
(***************************************************************************)

\* the answer of a reorder call that got a list
ReorderTraced(status) ==
    /\ ReorderAnswered(1, status)
    /\ "order" \in DOMAIN req[1]

\* C17: a reorder call that fails part-way, on an element of the list that
\* cannot be converted to an id, reports failure and leaves the ordering (and
\* everything else) of every track as it was before the call, whatever the
\* elements before that one had been assigned.
C17_ReorderAllOrNothing ==
    (/\ req[1].handler = "reorder_playlist"
     /\ req[1].pc = "done"
     /\ "order" \in DOMAIN req[1]
     /\ \E i \in 1 .. Len(req[1].order) : req[1].order[i] = NotAnInt)
        => (req[1].status = 500 /\ playlist = req[1].before)

\* reorder([2, 1, "x"]) failed after rows 2 and 1 had been assigned 0 and 1:
\* row 2 still has its ordering 2
C17_Witness ==
    /\ ReorderTraced(500)
    /\ req[1].order = <<2, 1, NotAnInt>>
    /\ {1, 2} \subseteq LiveIds
    /\ RowById(1).ordering = 1
    /\ RowById(2).ordering = 2

\* the positions of id in the list s
PositionsOf(s, id) == { i \in 1 .. Len(s) : s[i] = id }

\* C18 as stated: after a successful reorder with list s, for every position
\* i (counted from 0) the track s[i], when it exists, has ordering i.
C18_EveryPositionAssigned ==
    ReorderTraced(200)
        => \A i \in 1 .. Len(req[1].order) :
              req[1].order[i] \in LiveIds
                  => RowById(req[1].order[i]).ordering = i - 1

\* C18, amended: after a successful reorder with list s, a track named in s
\* has as ordering the last position of its id in s (counted from 0; its only
\* position when s names it once), ids without a track are skipped, a
\* track not named in s keeps its ordering, every other field of every track
\* is unchanged and no track is added or removed; reorder([3,1,2]) on tracks
\* {1,2,3} gives id 3 -> 0, id 1 -> 1, id 2 -> 2.
C18_ReorderAssignsLastPosition ==
    ReorderTraced(200)
        => /\ playlist =
                { IF PositionsOf(req[1].order, x.id) # {}
                  THEN [x EXCEPT !.ordering = Max(PositionsOf(req[1].order, x.id)) - 1]
                  ELSE x : x \in req[1].before }
           /\ (req[1].order = <<3, 1, 2>> /\ LiveIds = {1, 2, 3})
                 => /\ RowById(3).ordering = 0
                    /\ RowById(1).ordering = 1
                    /\ RowById(2).ordering = 2

\* reorder([3, 1, 2]) on the tracks 1, 2, 3
C18_Witness ==
    /\ ReorderTraced(200)
    /\ req[1].order = <<3, 1, 2>>
    /\ LiveIds = {1, 2, 3}
    /\ { <<x.id, x.ordering>> : x \in playlist } = { <<3, 0>>, <<1, 1>>, <<2, 2>> }

\* reorder([2, 9]) with track 2 and without a track 9, track 1 not named
C18_WitnessSkip ==
    /\ ReorderTraced(200)
    /\ Len(req[1].order) = 2
    /\ req[1].order[1] \in LiveIds
    /\ req[1].order[2] \notin LiveIds
    /\ \E x \in playlist : PositionsOf(req[1].order, x.id) = {} /\ x.ordering > 0

UploadAnswered(w) ==
    /\ req[w].handler = "upload"
    /\ req[w].pc = "done"
    /\ req[w].status = 200

\* C19: the track an upload creates, with no other request in flight, has an
\* ordering greater than the ordering of every other track of the catalog,
\* after any sequence of uploads, reorders and deletes, so every listing of
\* the catalog as the upload leaves it ends with that track; the upload into
\* an empty catalog gets ordering 1 and the upload after it gets 2.
C19_UploadOrderedLast ==
    /\ UploadAnswered(1)
          => /\ \A x \in playlist :
                   x.id # req[1].song_id
                      => x.ordering < RowById(req[1].song_id).ordering
             /\ \A q \in Listings(playlist) : q[Len(q)] = req[1].song_id
    /\ (req[1].handler = "upload" /\ req[1].pc = "commit")
          => /\ \A x \in playlist : x.ordering < req[1].next_order
             /\ playlist = {} => req[1].next_order = 1
             /\ { x.ordering : x \in playlist } = {1} => req[1].next_order = 2

\* an upload after two uploads, a delete of the first track and a reorder
\* that puts the track that is left first: the new track has ordering 1
C19_Witness ==
    /\ UploadAnswered(1)
    /\ req[1].song_id = 3
    /\ LiveIds = {2, 3}
    /\ RowById(2).ordering = 0
    /\ RowById(3).ordering = 1

\* uploads into an empty catalog: orderings 1 then 2
C19_WitnessFirstTwo ==
    /\ UploadAnswered(1)
    /\ req[1].song_id = 2
    /\ { <<x.id, x.ordering>> : x \in playlist } = { <<1, 1>>, <<2, 2>> }

(***************************************************************************)
(* One more claim about the transport state, checked under TransportSpec.  *)
(***************************************************************************)

\* the step is a player_action whose action is PLAY, PAUSE, SEEK or
\* CHANGE_SONG
AcceptedStep ==
    /\ event'.handler = "player_action"
    /\ ActionOf(event'.data) \in AcceptedNames
    /\ event'.at = now

\* C20: last_update_time changes only in a step that accepts a recognized
\* player action, and every such step sets it to the server time of that
\* step; so it never decreases and is never later than the server clock, and
\* the position sent to a client that connects is never smaller than the
\* stored position.
C20_LastUpdateTime ==
    /\ [](/\ server_state.last_update_time <= now
          /\ (event.handler = "connect")
                => /\ Len(emitted) = 1
                   /\ emitted[1].payload.current_time >= server_state.current_time)
    /\ [][/\ server_state'.last_update_time >= server_state.last_update_time
          /\ server_state'.last_update_time # server_state.last_update_time
                => (AcceptedStep /\ server_state'.last_update_time = now)
          /\ (AcceptedStep /\ event' # event)
                => server_state'.last_update_time = now]_vars

\* an action accepted at time 1, and a client that connects at time 2 and is
\* sent the stored position plus 1
C20_Witness ==
    /\ event.handler = "connect"
    /\ now = 2
    /\ server_state.last_update_time = 1
    /\ last_action.at = 1
    /\ server_state.is_playing
    /\ Len(emitted) = 1
    /\ emitted[1].payload.current_time = server_state.current_time + 1

====
